---- MODULE Spec2Model ----
(***************************************************************************)
(* Model of the aicommits network client.                                  *)
(*                                                                         *)
(*   src/src/utils/openai.ts   raw-HTTPS client: httpsPost,                *)
(*                             createChatCompletion, generateCommitMessage *)
(*   src/unnamed/part_000      SDK-backed client: generateCommitMessage    *)
(*                                                                         *)
(* A JavaScript string is modelled by what the code asks of it: the set of *)
(* substrings ("marks") it is tested for with String.includes, plus the    *)
(* template it was built from.  Concatenation is the union of the marks.   *)
(***************************************************************************)
EXTENDS Integers, Sequences, FiniteSets, TLC

\* ------------------------------------------------------------------ bounds
\* Largest retry budget a caller passes (all kinds of attempt outcome).
MaxRetries == 2
\* Largest retry budget a caller passes in the long-backoff runs.
MaxBackoffRetries == 4
\* Callbacks of one request that fire before the awaiting code resumes.
MaxCallbacks == 2
\* Longest message content in the one-choice responses.
MaxLen == 3
\* Most choices in a response.
MaxChoices == 3

\* ------------------------------------------------------- program constants
DefaultRetries == 2
SdkDefaultRetries == 2
BaseDelay == 1000
MaxDelay == 5000
DefaultTimeout == 10000

\* --------------------------------------------------------------- strings
M401 == "401"
MTLS == "TLS"
MSock == "socket disconnected"
MPhrase == "socket disconnected before secure TLS connection was established"
MReset == "ECONNRESET"
MTimedOut == "ETIMEDOUT"
MNotFound == "ENOTFOUND"
MRefused == "ECONNREFUSED"

\* String.prototype.includes on a modelled string.
Includes(marks, m) == m \in marks

RECURSIVE Has401(_)
\* Whether the decimal text of n contains "401" (template literal ${n}).
Has401(n) ==
    IF n < 401 THEN FALSE
    ELSE IF n % 1000 = 401 THEN TRUE
    ELSE Has401(n \div 10)

NumberMarks(n) == IF Has401(n) THEN {M401} ELSE {}

\* ------------------------------------------------------------ input sets
\* Error objects the transport emits: { code, message }.
RawErrors ==
    { [code |-> "ECONNRESET",       marks |-> {MReset}],
      [code |-> "ENOTFOUND",        marks |-> {MNotFound}],
      [code |-> "ETIMEDOUT",        marks |-> {MTimedOut}],
      [code |-> "ECONNREFUSED",     marks |-> {MRefused}],
      [code |-> "CERT_HAS_EXPIRED", marks |-> {}],
      [code |-> "ECONNRESET",       marks |-> {MPhrase, MSock, MTLS}],
      [code |-> "NONE",             marks |-> {MPhrase, MSock, MTLS}],
      [code |-> "NONE",             marks |-> {MTLS}],
      [code |-> "NONE",             marks |-> {}] }

NoRawError == [code |-> "NONE", marks |-> {}]

\* response.statusCode
Statuses == {200, 401, 404, 429, 500, 503}

\* Response bodies: whether JSON.parse accepts the text, and its marks.
Bodies ==
    { [json |-> TRUE,  marks |-> {}],
      [json |-> FALSE, marks |-> {}],
      [json |-> TRUE,  marks |-> {MTLS}],
      [json |-> FALSE, marks |-> {MTLS}] }

NoBody == [json |-> FALSE, marks |-> {}]

Timeouts == {DefaultTimeout}

\* The caller's retries argument: given or undefined.
Undefined == [given |-> FALSE, val |-> 0]
Given(n) == [given |-> TRUE, val |-> n]
RetriesArgs == {Undefined} \cup {Given(n) : n \in 0..MaxRetries}

\* ------------------------------------------------------------ error values
\* known: instanceof KnownError; code: the error object's code property.
Err(known, tmpl, marks, code, status) ==
    [known |-> known, tmpl |-> tmpl, marks |-> marks, code |-> code,
     status |-> status]

NullError == Err(FALSE, "null", {}, "NONE", 0)

\* ------------------------------------------------- httpsPost (one attempt)
\* request.on('error'): the message is reworded by error code, then by the
\* handshake phrase, and wrapped in a KnownError (which carries no code).
RequestErrorReject(err) ==
    IF err.code = "ECONNRESET" THEN Err(TRUE, "reset", {}, "NONE", 0)
    ELSE IF err.code = "ENOTFOUND" THEN Err(TRUE, "dns", {}, "NONE", 0)
    ELSE IF err.code = "ETIMEDOUT" THEN Err(TRUE, "etimedout", {}, "NONE", 0)
    ELSE IF err.code = "ECONNREFUSED" THEN Err(TRUE, "refused", {}, "NONE", 0)
    ELSE IF err.code \in {"CERT_HAS_EXPIRED", "UNABLE_TO_VERIFY_LEAF_SIGNATURE"}
         THEN Err(TRUE, "cert", {}, "NONE", 0)
    ELSE IF Includes(err.marks, MPhrase)
         THEN Err(TRUE, "tlsHandshake", {MTLS}, "NONE", 0)
    ELSE Err(TRUE, "raw", err.marks, "NONE", 0)

\* request.on('timeout'): 'Request timed out after ${timeout}ms. ...'
TimeoutReject(t) == Err(TRUE, "timeout", NumberMarks(t), "NONE", 0)

\* socket.on('error'): a TLS diagnostic, or the raw error object itself.
SocketErrorReject(err) ==
    IF Includes(err.marks, MSock) \/ Includes(err.marks, MTLS)
    THEN Err(TRUE, "tlsConnection", {MTLS}, "NONE", 0)
    ELSE Err(FALSE, "raw", err.marks, err.code, 0)

\* A promise that ignores resolve and reject.
SettleNever(p, q) == p

\* A promise that every resolve and reject settles anew.
SettleAgain(p, q) == q

\* A promise settles once: resolve and reject after that do nothing.
Settle(p, q) == IF p.state = "pending" THEN q ELSE p

Pending == [state |-> "pending", status |-> 0, body |-> NoBody,
            error |-> NullError]
Resolved(status, body) == [state |-> "resolved", status |-> status,
                           body |-> body, error |-> NullError]
Rejected(e) == [state |-> "rejected", status |-> 0, body |-> NoBody,
                error |-> e]

\* -------------------------------------------------- createChatCompletion
\* retries: number = 2
EffectiveRetries(arg) == IF arg.given THEN arg.val ELSE DefaultRetries

\* for (...; attempt <= retries; ...)
LoopGuard(a, r) == a <= r

\* response.statusCode < 200 || response.statusCode > 299 (or no status)
BadStatus(status) == status = 0 \/ status < 200 \/ status > 299

\* `OpenAI API Error: ${status} - ${statusMessage}` + data (+ the 500 hint).
\* The reason phrases of the statuses used carry none of the marks.
HttpError(status, body) ==
    Err(TRUE, "http", NumberMarks(status) \cup body.marks, "NONE", status)

\* JSON.parse's SyntaxError; the engine may quote the text in its message
\* ("Unexpected token 'T', "TLS ..." is not valid JSON") or not.
ParseError(body, echo) ==
    Err(FALSE, "syntax", IF echo THEN body.marks ELSE {}, "NONE", 0)

\* error instanceof KnownError && error.message.includes('401')
IsAuthError(e) == e.known /\ Includes(e.marks, M401)

\* attempt === retries
LastAttempt(a, r) == a = r

IsNetworkError(e) ==
    \/ Includes(e.marks, MTLS)
    \/ Includes(e.marks, MSock)
    \/ Includes(e.marks, MReset)
    \/ Includes(e.marks, MTimedOut)
    \/ Includes(e.marks, MNotFound)

Min(a, b) == IF a < b THEN a ELSE b

\* Mutant of Delay: the cap forgotten.
DelayUncapped(a) == BaseDelay * 2 ^ a

\* Math.min(1000 * Math.pow(2, attempt), 5000)
Delay(a) == Min(BaseDelay * 2 ^ a, MaxDelay)

\* Mutant of NextAttempt: the loop counter not advanced.
NextAttemptStuck(a) == a

\* attempt++
NextAttempt(a) == a + 1

\* What the catch block does with the error of one attempt.
CatchDecision(e, a, r) ==
    IF IsAuthError(e) THEN "throw"
    ELSE IF LastAttempt(a, r) THEN "break"
    ELSE IF ~IsNetworkError(e) THEN "throw"
    ELSE "retry"

FallbackError == Err(TRUE, "fallback", {}, "NONE", 0)

\* Mutant of FinalThrow: the placeholder thrown whatever failed last.
FinalThrowFallback(last) == FallbackError

\* throw lastError || new KnownError('All connection attempts failed')
FinalThrow(last) == IF last = NullError THEN FallbackError ELSE last

\* ------------------------------------- generateCommitMessage (raw HTTPS)
\* catch: an error whose code is ENOTFOUND is replaced, any other rethrown.
OuterCatch(e) ==
    IF e.code = "ENOTFOUND" THEN Err(TRUE, "connecting", {}, "NONE", 0)
    ELSE e

\* ------------------------------------- generateCommitMessage (SDK-backed)
\* maxRetries: retries || 2
SdkMaxRetries(arg) ==
    IF arg.given /\ arg.val # 0 THEN arg.val ELSE SdkDefaultRetries

\* An error caught by the SDK-backed call's catch block: which of the SDK's
\* classes it is an instance of, its status, the marks of its message and
\* its code.
SdkErr(api, conn, openai, known, tmpl, status, marks, code) ==
    [api |-> api, conn |-> conn, openai |-> openai, known |-> known,
     tmpl |-> tmpl, status |-> status, marks |-> marks, code |-> code]

NoSdkError == SdkErr(FALSE, FALSE, FALSE, FALSE, "null", 0, {}, "NONE")

SdkKnownError(tmpl) == SdkErr(FALSE, FALSE, FALSE, TRUE, tmpl, 0, {}, "NONE")

MTimeout == "timeout"

\* The catch block of the SDK-backed generateCommitMessage, after the reset
\* of the environment variable.
SdkCatchError(e) ==
    IF e.api THEN
        IF e.status = 401 THEN SdkKnownError("invalidKey")
        ELSE IF e.status = 429 THEN SdkKnownError("rateLimit")
        ELSE IF e.status = 500 THEN SdkKnownError("serverError")
        ELSE SdkKnownError("apiError")
    ELSE IF e.conn THEN SdkKnownError("connect")
    ELSE IF Includes(e.marks, MTimeout) \/ Includes(e.marks, MTimedOut)
         THEN SdkKnownError("timeout")
    ELSE IF e.openai THEN SdkKnownError("openai")
    ELSE IF e.code = "ENOTFOUND" THEN SdkKnownError("connecting")
    ELSE e

\* ------------------------------------------------- observation vocabulary
\* The category of what ended an attempt, named as in the design's error
\* taxonomy; recorded per attempt so that claims can speak of it.
StatusCategory(status, body) ==
    IF status = 401 THEN "Auth"
    ELSE IF status = 429 THEN "RateLimit"
    ELSE IF status >= 500 /\ status <= 599 THEN "ServerError"
    ELSE IF BadStatus(status) THEN "OtherStatus"
    ELSE IF ~body.json THEN "MalformedResponse"
    ELSE "Success"

ErrorCategory(err) ==
    IF Includes(err.marks, MSock) \/ Includes(err.marks, MTLS)
    THEN "TlsHandshakeFailure"
    ELSE IF err.code = "ENOTFOUND" THEN "DnsFailure"
    ELSE IF err.code = "ECONNREFUSED" THEN "ConnectionRefused"
    ELSE IF err.code = "ECONNRESET" THEN "ConnectionReset"
    ELSE "Unknown"

RetryableCategories ==
    {"ServerError", "DnsFailure", "ConnectionRefused", "ConnectionReset",
     "TlsHandshakeFailure", "Timeout"}

\* ------------------------------------------------------------------ state
VARIABLES
    client,       \* which implementation the call runs: "none", "https", "sdk"
    pc,           \* "idle", "inflight", "backoff", "sdkCreate", "done"
    retriesArg,   \* the caller's retries argument
    retries,      \* createChatCompletion's retries parameter
    timeout,      \* the caller's timeout
    attempt,      \* the for loop's counter
    lastError,    \* createChatCompletion's lastError
    promise,      \* the promise of the httpsPost in flight
    outcome,      \* "none", "returned", "nonretryable", "exhausted"
    surfaced,     \* the error thrown to generateCommitMessage's caller
    calls,        \* observation: httpsPost calls started
    fired,        \* observation: callbacks fired for the request in flight
    cat,          \* observation: category of the event that settled promise
    hist,         \* observation: categories of the attempts that ended
    waits,        \* observation: the backoff delays waited, in order
    open,         \* observation: indices of the requests not yet closed
    env,          \* process.env.NODE_TLS_REJECT_UNAUTHORIZED
    sdk,          \* the SDK-backed generateCommitMessage calls, by call
    envInit,      \* observation: env when the process started
    sdkError,     \* the error the SDK-backed call's catch block caught
    sdkThrown,    \* the error that catch block throws
    completion,   \* the parsed response handed to the post-processing
    postPc,       \* "parsed", "returned", "threw"
    messages,     \* the list generateCommitMessage returns
    postError     \* the error the post-processing throws

httpsVars == <<client, pc, retriesArg, retries, timeout, attempt, lastError,
               promise, outcome, surfaced, calls, fired, cat, hist, waits,
               open>>

sdkVars == <<env, sdk, envInit, sdkError, sdkThrown>>

postVars == <<completion, postPc, messages, postError>>

vars == <<httpsVars, sdkVars, postVars>>

\* A response without a choices array; also the value before any response.
NoCompletion == [hasChoices |-> FALSE, choices |-> <<>>]

PostIdle ==
    /\ completion = NoCompletion
    /\ postPc = "parsed"
    /\ messages = <<>>
    /\ postError = NullError

\* The SDK-backed calls a process makes at the same time.
SdkCalls == {1, 2}

SdkIdle ==
    [pc |-> "idle", arg |-> Undefined, maxRetries |-> 0, insecure |-> FALSE,
     envBefore |-> "unset", attempts |-> 0, inflight |-> FALSE,
     relaxed |-> FALSE]

HttpsInit ==
    /\ client = "none"
    /\ pc = "idle"
    /\ retriesArg = Undefined
    /\ retries = 0
    /\ timeout = DefaultTimeout
    /\ attempt = 0
    /\ lastError = NullError
    /\ promise = Pending
    /\ outcome = "none"
    /\ surfaced = NullError
    /\ calls = 0
    /\ fired = 0
    /\ cat = "none"
    /\ hist = <<>>
    /\ waits = <<>>
    /\ open = {}

Init ==
    /\ HttpsInit
    /\ env = "unset"
    /\ envInit = "unset"
    /\ sdk = [c \in SdkCalls |-> SdkIdle]
    /\ sdkError = NoSdkError
    /\ sdkThrown = NoSdkError
    /\ PostIdle

\* ---------------------------------------------------------------- actions
\* The body of the for loop up to `await httpsPost(...)`.
StartHttpsPost ==
    /\ pc' = "inflight"
    /\ open' = open \cup {attempt'}
    /\ promise' = Pending
    /\ calls' = calls + 1
    /\ fired' = 0
    /\ cat' = "none"

\* The error leaves createChatCompletion and generateCommitMessage.
Throw(e, how) ==
    /\ pc' = "done"
    /\ outcome' = how
    /\ surfaced' = OuterCatch(e)

\* generateCommitMessage of openai.ts calls createChatCompletion, which
\* runs to its first await.
GenerateCommitMessage(arg, t) ==
    /\ pc = "idle"
    /\ client' = "https"
    /\ retriesArg' = arg
    /\ retries' = EffectiveRetries(arg)
    /\ timeout' = t
    /\ lastError' = NullError
    /\ attempt' = 0
    /\ IF LoopGuard(0, EffectiveRetries(arg))
       THEN StartHttpsPost /\ UNCHANGED <<outcome, surfaced>>
       ELSE /\ Throw(FinalThrow(NullError), "exhausted")
            /\ UNCHANGED <<promise, calls, fired, cat, open>>
    /\ UNCHANGED <<hist, waits, sdkVars, postVars>>

\* A request that stays open after its response ended or it failed.
CloseNothing(reqs, i) == reqs

\* The request ended by itself: its response ended, or it or its socket
\* emitted 'error', after which Node closes it.
CloseRequest(reqs, i) == reqs \ {i}

\* A 'timeout' event leaves the request open; request.destroy() closes it.
DestroyRequest(reqs, i) == reqs \ {i}

\* A callback of the request in flight calls resolve or reject; only the
\* first call settles the promise.
Fire(settled, category, stillOpen) ==
    /\ promise' = Settle(promise, settled)
    /\ open' = stillOpen
    /\ cat' = IF promise.state = "pending" THEN category ELSE cat
    /\ fired' = fired + 1
    /\ UNCHANGED <<client, pc, retriesArg, retries, timeout, attempt,
                   lastError, outcome, surfaced, calls, hist, waits,
                   sdkVars, postVars>>

\* response.on('end')
ResponseEnd(status, body) ==
    /\ pc = "inflight"
    /\ fired < MaxCallbacks
    /\ Fire(Resolved(status, body), StatusCategory(status, body),
            CloseRequest(open, attempt))

\* request.on('error')
RequestOnError(err) ==
    /\ pc = "inflight"
    /\ fired < MaxCallbacks
    /\ Fire(Rejected(RequestErrorReject(err)), ErrorCategory(err),
            CloseRequest(open, attempt))

\* request.on('timeout')
RequestOnTimeout ==
    /\ pc = "inflight"
    /\ fired < MaxCallbacks
    /\ Fire(Rejected(TimeoutReject(timeout)), "Timeout",
            DestroyRequest(open, attempt))

\* socket.on('error')
SocketOnError(err) ==
    /\ pc = "inflight"
    /\ fired < MaxCallbacks
    /\ Fire(Rejected(SocketErrorReject(err)), ErrorCategory(err),
            CloseRequest(open, attempt))

\* catch (error) { ... } of createChatCompletion
Catch(e) ==
    /\ lastError' = e
    /\ LET d == CatchDecision(e, attempt, retries) IN
       IF d = "throw" THEN
           /\ Throw(e, "nonretryable")
           /\ UNCHANGED waits
       ELSE IF d = "break" THEN
           /\ Throw(FinalThrow(e), "exhausted")
           /\ UNCHANGED waits
       ELSE
           /\ pc' = "backoff"
           /\ waits' = Append(waits, Delay(attempt))
           /\ UNCHANGED <<outcome, surfaced>>

\* The errors the try block can throw for a settled promise of httpsPost.
AttemptErrors(p) ==
    IF p.state = "rejected" THEN {p.error}
    ELSE IF p.state = "pending" THEN {}
    ELSE IF BadStatus(p.status) THEN {HttpError(p.status, p.body)}
    ELSE IF p.body.json THEN {}
    ELSE {ParseError(p.body, echo) : echo \in BOOLEAN}

\* The await of httpsPost resumes: status check, JSON.parse, catch.
Resume ==
    /\ pc = "inflight"
    /\ promise.state # "pending"
    /\ hist' = Append(hist, cat)
    /\ IF promise.state = "rejected" THEN Catch(promise.error)
       ELSE IF BadStatus(promise.status)
            THEN Catch(HttpError(promise.status, promise.body))
       ELSE IF promise.body.json
            THEN /\ pc' = "done"
                 /\ outcome' = "returned"
                 /\ UNCHANGED <<lastError, surfaced, waits>>
       ELSE \E echo \in BOOLEAN : Catch(ParseError(promise.body, echo))
    /\ UNCHANGED <<client, retriesArg, retries, timeout, attempt, promise,
                   calls, fired, cat, open, sdkVars, postVars>>

\* The backoff timer fires: attempt++, loop test, next httpsPost.
BackoffElapsed ==
    /\ pc = "backoff"
    /\ attempt' = NextAttempt(attempt)
    /\ IF LoopGuard(NextAttempt(attempt), retries)
       THEN StartHttpsPost /\ UNCHANGED <<outcome, surfaced>>
       ELSE /\ Throw(FinalThrow(lastError), "exhausted")
            /\ UNCHANGED <<promise, calls, fired, cat, open>>
    /\ UNCHANGED <<client, retriesArg, retries, timeout, lastError,
                   hist, waits, sdkVars, postVars>>

Next ==
    \/ \E arg \in RetriesArgs, t \in Timeouts : GenerateCommitMessage(arg, t)
    \/ \E s \in Statuses, b \in Bodies : ResponseEnd(s, b)
    \/ \E err \in RawErrors : RequestOnError(err)
    \/ RequestOnTimeout
    \/ \E err \in RawErrors : SocketOnError(err)
    \/ Resume
    \/ BackoffElapsed

Spec == Init /\ [][Next]_vars

\* The transport settles the request in flight: one of the events fires.
TransportSettles ==
    \/ \E s \in Statuses, b \in Bodies : ResponseEnd(s, b)
    \/ \E err \in RawErrors : RequestOnError(err)
    \/ RequestOnTimeout
    \/ \E err \in RawErrors : SocketOnError(err)

\* The same program under the environment's promises: a request in flight
\* gets an event, the event loop resumes a settled await, and a backoff
\* timer fires.
SpecLive ==
    /\ Init
    /\ [][Next]_vars
    /\ WF_vars(TransportSettles)
    /\ WF_vars(Resume)
    /\ WF_vars(BackoffElapsed)

\* Calls with any retries argument a number can be, a negative one
\* included: the loop test then fails before the first request.
AnyRetriesArgs == RetriesArgs \cup {Given(-1)}

NextAnyRetries ==
    \/ \E arg \in AnyRetriesArgs, t \in Timeouts :
          GenerateCommitMessage(arg, t)
    \/ \E s \in Statuses, b \in Bodies : ResponseEnd(s, b)
    \/ \E err \in RawErrors : RequestOnError(err)
    \/ RequestOnTimeout
    \/ \E err \in RawErrors : SocketOnError(err)
    \/ Resume
    \/ BackoffElapsed

SpecAnyRetries == Init /\ [][NextAnyRetries]_vars

\* Long retry sequences: budgets up to MaxBackoffRetries, with the attempt
\* outcomes narrowed to a success, a plain failure and retried failures.
BackoffRetriesArgs == {Given(n) : n \in 0..MaxBackoffRetries}
BackoffStatuses == {200, 500}
BackoffBodies == {b \in Bodies : b.marks = {}}
BackoffErrors == {e \in RawErrors : e.code \in {"NONE", "ENOTFOUND"}}

NextBackoff ==
    \/ \E arg \in BackoffRetriesArgs, t \in Timeouts :
          GenerateCommitMessage(arg, t)
    \/ \E s \in BackoffStatuses, b \in BackoffBodies : ResponseEnd(s, b)
    \/ \E err \in BackoffErrors : RequestOnError(err)
    \/ RequestOnTimeout
    \/ \E err \in BackoffErrors : SocketOnError(err)
    \/ Resume
    \/ BackoffElapsed

SpecBackoff == Init /\ [][NextBackoff]_vars

\* ------------------------------------------- the SDK-backed client's calls
EnvValues == {"unset", "0", "1"}

\* process.env.NODE_TLS_REJECT_UNAUTHORIZED = '0', when insecureTls
SetInsecure(insecure, e) == IF insecure THEN "0" ELSE e

\* delete process.env.NODE_TLS_REJECT_UNAUTHORIZED, when insecureTls
ResetInsecure(insecure, e) == IF insecure THEN "unset" ELSE e

\* Node verifies the server certificate unless the variable is '0'.
VerificationDisabled(e) == e = "0"

InitSdk ==
    /\ HttpsInit
    /\ env \in EnvValues
    /\ envInit = env
    /\ sdk = [c \in SdkCalls |-> SdkIdle]
    /\ sdkError = NoSdkError
    /\ sdkThrown = NoSdkError
    /\ PostIdle

\* The call's catch block runs: the variable is reset, an error is thrown.
SdkCatch(c) ==
    /\ env' = ResetInsecure(sdk[c].insecure, env)
    /\ sdk' = [sdk EXCEPT ![c].pc = "threw", ![c].inflight = FALSE]

\* generateCommitMessage builds openaiConfig; with a proxy it awaits the
\* import of the agent, otherwise it sets the variable, constructs the
\* client and awaits openai.chat.completions.create.
SdkGenerateCommitMessage(c, arg, proxy, insecure) ==
    /\ sdk[c].pc = "idle"
    /\ sdk' = [sdk EXCEPT ![c] =
                 [SdkIdle EXCEPT !.pc = IF proxy THEN "import" ELSE "create",
                                 !.arg = arg,
                                 !.maxRetries = SdkMaxRetries(arg),
                                 !.insecure = insecure,
                                 !.envBefore = env]]
    /\ env' = IF proxy THEN env ELSE SetInsecure(insecure, env)
    /\ UNCHANGED <<httpsVars, envInit, sdkError, sdkThrown,
                   postVars>>

\* The import settles: the agent is built and the call goes on to create,
\* or building it throws and the catch block runs.
SdkImportSettles(c, ok) ==
    /\ sdk[c].pc = "import"
    /\ IF ok
       THEN /\ env' = SetInsecure(sdk[c].insecure, env)
            /\ sdk' = [sdk EXCEPT ![c].pc = "create"]
       ELSE SdkCatch(c)
    /\ UNCHANGED <<httpsVars, envInit, sdkError, sdkThrown,
                   postVars>>

\* The SDK opens a connection for the call; TLS verification is what the
\* variable says at that moment.
SdkAttemptStarts(c) ==
    /\ sdk[c].pc = "create"
    /\ ~sdk[c].inflight
    /\ sdk[c].attempts <= sdk[c].maxRetries
    /\ sdk' = [sdk EXCEPT ![c].inflight = TRUE,
                          ![c].attempts = @ + 1,
                          ![c].relaxed = VerificationDisabled(env)]
    /\ UNCHANGED <<httpsVars, env, envInit, sdkError, sdkThrown,
                   postVars>>

\* The attempt fails and the SDK keeps the call for a retry.
SdkAttemptFails(c) ==
    /\ sdk[c].pc = "create"
    /\ sdk[c].inflight
    /\ sdk[c].attempts <= sdk[c].maxRetries
    /\ sdk' = [sdk EXCEPT ![c].inflight = FALSE]
    /\ UNCHANGED <<httpsVars, env, envInit, sdkError, sdkThrown,
                   postVars>>

\* create() resolves: the variable is reset and the messages are returned.
SdkCreateResolves(c) ==
    /\ sdk[c].pc = "create"
    /\ sdk[c].inflight
    /\ env' = ResetInsecure(sdk[c].insecure, env)
    /\ sdk' = [sdk EXCEPT ![c].pc = "returned", ![c].inflight = FALSE]
    /\ UNCHANGED <<httpsVars, envInit, sdkError, sdkThrown,
                   postVars>>

\* create() rejects (or the constructor throws): the catch block runs.
SdkCreateRejects(c) ==
    /\ sdk[c].pc = "create"
    /\ SdkCatch(c)
    /\ UNCHANGED <<httpsVars, envInit, sdkError, sdkThrown,
                   postVars>>

NextSdk ==
    \/ \E c \in SdkCalls, arg \in RetriesArgs, proxy \in BOOLEAN,
          insecure \in BOOLEAN :
          SdkGenerateCommitMessage(c, arg, proxy, insecure)
    \/ \E c \in SdkCalls, ok \in BOOLEAN : SdkImportSettles(c, ok)
    \/ \E c \in SdkCalls : SdkAttemptStarts(c)
    \/ \E c \in SdkCalls : SdkAttemptFails(c)
    \/ \E c \in SdkCalls : SdkCreateResolves(c)
    \/ \E c \in SdkCalls : SdkCreateRejects(c)

SpecSdk == InitSdk /\ [][NextSdk]_vars

\* The catch block's classification of the error it caught, on its own:
\* errors of every class, status, wording and code.
SdkStatuses == {0, 401, 404, 429, 500}
SdkCodes == {"NONE", "ENOTFOUND", "ERR_MODULE_NOT_FOUND"}
SdkMarks == {MTimeout, MTimedOut, MNotFound, MTLS}

\* APIError and APIConnectionError are OpenAIError subclasses.
SdkErrors ==
    { SdkErr(api, conn, openai, FALSE, "raw", st, marks, code) :
        api \in BOOLEAN, conn \in BOOLEAN, openai \in BOOLEAN,
        st \in SdkStatuses, marks \in SUBSET SdkMarks, code \in SdkCodes }
    \ { e \in [api : BOOLEAN, conn : BOOLEAN, openai : BOOLEAN,
                known : {FALSE}, tmpl : {"raw"}, status : SdkStatuses,
                marks : SUBSET SdkMarks, code : SdkCodes] :
           (e.api \/ e.conn) /\ ~e.openai }

InitSdkCatch ==
    /\ HttpsInit
    /\ env = "unset"
    /\ envInit = "unset"
    /\ sdk = [c \in SdkCalls |-> SdkIdle]
    /\ sdkError \in SdkErrors
    /\ sdkThrown = NoSdkError
    /\ PostIdle

SdkCatchRuns ==
    /\ sdkThrown = NoSdkError
    /\ sdkThrown' = SdkCatchError(sdkError)
    /\ UNCHANGED <<httpsVars, env, sdk, envInit, sdkError, postVars>>

NextSdkCatch == SdkCatchRuns

SpecSdkCatch == InitSdkCatch /\ [][NextSdkCatch]_vars

\* ----------------------------------------------- response post-processing
\* Message text is a sequence of characters: a word character, a period,
\* a space, a line break ('\n' or '\r') and a character that is neither a
\* word character nor white space.
Chars == {"a", ".", " ", "\n", "-"}

\* \s as String.prototype.trim sees it
IsSpace(ch) == ch \in {" ", "\n"}
\* [\n\r]
IsNewline(ch) == ch = "\n"
\* \w
IsWord(ch) == ch = "a"

RECURSIVE TrimStart(_)
TrimStart(s) ==
    IF s # <<>> /\ IsSpace(Head(s)) THEN TrimStart(Tail(s)) ELSE s

RECURSIVE TrimEnd(_)
TrimEnd(s) ==
    IF s # <<>> /\ IsSpace(s[Len(s)])
    THEN TrimEnd(SubSeq(s, 1, Len(s) - 1))
    ELSE s

\* .trim()
Trim(s) == TrimEnd(TrimStart(s))

\* .replace(/[\n\r]/g, '')
NotNewline(ch) == ~IsNewline(ch)
StripNewlines(s) == SelectSeq(s, NotNewline)

\* Mutant of DropPeriod: /\.$/, the period removed whatever precedes it.
DropPeriodAlways(s) ==
    IF s # <<>> /\ s[Len(s)] = "." THEN SubSeq(s, 1, Len(s) - 1) ELSE s

\* .replace(/(\w)\.$/, '$1')
DropPeriod(s) ==
    IF Len(s) >= 2 /\ s[Len(s)] = "." /\ IsWord(s[Len(s) - 1])
    THEN SubSeq(s, 1, Len(s) - 1)
    ELSE s

sanitizeMessage(s) == DropPeriod(StripNewlines(Trim(s)))

Range(q) == {q[i] : i \in 1..Len(q)}

\* Mutant of deduplicateMessages: the array returned as it is.
deduplicateNothing(array) == array

RECURSIVE deduplicateMessages(_)
\* Array.from(new Set(array)): a Set keeps the order of first insertion.
deduplicateMessages(array) ==
    IF array = <<>> THEN <<>>
    ELSE LET front == deduplicateMessages(SubSeq(array, 1, Len(array) - 1))
             last == array[Len(array)]
         IN IF last \in Range(front) THEN front ELSE Append(front, last)

\* A choice of the response: kind "noMessage" (no message), "noContent"
\* (a message without content) or "content" (content is the string text).
Choice(kind, text) == [kind |-> kind, text |-> text]

\* Mutant of HasContent: no choice filtered out.
HasContentAlways(choice) == TRUE

\* choice.message?.content, as a filter predicate (an empty string is falsy)
HasContent(choice) == choice.kind = "content" /\ choice.text # <<>>

\* choices.filter(...)
RECURSIVE Filter(_)
Filter(choices) ==
    IF choices = <<>> THEN <<>>
    ELSE IF HasContent(Head(choices))
         THEN <<Head(choices)>> \o Filter(Tail(choices))
         ELSE Filter(Tail(choices))

\* .map((choice) => sanitizeMessage(choice.message!.content as string))
MapSanitize(kept) == [i \in 1..Len(kept) |-> sanitizeMessage(kept[i].text)]

\* Reading .content of a missing message, or calling .trim() on a missing
\* content, throws a TypeError.
MapThrows(kept) == \E i \in 1..Len(kept) : kept[i].kind # "content"

TypeError == Err(FALSE, "type", {}, "NONE", 0)

\* ------------------------------------------------------ inputs: responses
RECURSIVE SeqsUpTo(_, _)
\* The sequences over S of length at most n.
SeqsUpTo(S, n) ==
    IF n = 0 THEN {<<>>}
    ELSE LET shorter == SeqsUpTo(S, n - 1)
         IN shorter \cup {Append(q, x) : q \in shorter, x \in S}

\* Choices of the many-choice responses.
PoolChoices ==
    { Choice("noMessage", <<>>),
      Choice("noContent", <<>>),
      Choice("content", <<>>),
      Choice("content", <<"a">>),
      Choice("content", <<"a", ".">>),
      Choice("content", <<" ", "a">>),
      Choice("content", <<"a", "a">>),
      Choice("content", <<"\n">>) }

Completions ==
    {NoCompletion}
    \cup { [hasChoices |-> TRUE, choices |-> <<Choice("content", t)>>] :
             t \in SeqsUpTo(Chars, MaxLen) }
    \cup { [hasChoices |-> TRUE, choices |-> cs] :
             cs \in SeqsUpTo(PoolChoices, MaxChoices) }

InitPost ==
    /\ HttpsInit
    /\ env = "unset"
    /\ envInit = "unset"
    /\ sdk = [c \in SdkCalls |-> SdkIdle]
    /\ sdkError = NoSdkError
    /\ sdkThrown = NoSdkError
    /\ completion \in Completions
    /\ postPc = "parsed"
    /\ messages = <<>>
    /\ postError = NullError

\* generateCommitMessage after createChatCompletion has returned: filter,
\* map, deduplicate; what throws goes through the catch block unchanged.
PostProcess ==
    /\ postPc = "parsed"
    /\ IF ~completion.hasChoices \/ MapThrows(Filter(completion.choices))
       THEN /\ postPc' = "threw"
            /\ postError' = OuterCatch(TypeError)
            /\ UNCHANGED messages
       ELSE /\ postPc' = "returned"
            /\ messages' =
                 deduplicateMessages(MapSanitize(Filter(completion.choices)))
            /\ UNCHANGED postError
    /\ UNCHANGED <<httpsVars, sdkVars, completion>>

NextPost == PostProcess

SpecPost == InitPost /\ [][NextPost]_vars

\* ------------------------------------------------------------------ claims
Https == client = "https"
Done == pc = "done"

\* The attempt with 0-based index k - 1 ended the call.
EndedBy(k) == Done /\ Len(hist) = k

\* C1: one call of createChatCompletion starts at most retries + 1
\* transport attempts, and the loop counter never passes retries.
C1_AttemptBound ==
    Https => (calls <= retries + 1 /\ attempt <= retries)

\* C1 witness: a call that used its whole budget of two retries.
C1_Witness ==
    Https /\ Done /\ retries = 2 /\ calls = 3 /\ outcome = "exhausted"

\* C2 (as claimed): an attempt that ends as Auth (401) or MalformedResponse
\* (2xx, unparseable body) ends the call: no attempt follows it.
C2_AuthMalformedFinal ==
    Https => \A k \in 1..Len(hist) :
        hist[k] \in {"Auth", "MalformedResponse"} => (EndedBy(k) /\ calls = k)

\* C3 (as claimed): with retries = 2, a TLS handshake failure followed by a
\* connection reset does not end the call; a third attempt is made, and if
\* it succeeds the call returns after exactly 3 attempts.
C3_TlsResetSuccess ==
    (Https /\ retries = 2 /\ Len(hist) >= 2
       /\ hist[1] = "TlsHandshakeFailure" /\ hist[2] = "ConnectionReset")
    => /\ ~EndedBy(2)
       /\ (Len(hist) = 3 /\ hist[3] = "Success"
             => outcome = "returned" /\ calls = 3)

\* C4 (as claimed): with retries = 1 and every attempt timing out, the call
\* makes exactly 2 attempts, ends exhausted and surfaces the Timeout text.
C4_TimeoutRetried ==
    (Https /\ Done /\ retries = 1 /\ Len(hist) >= 1
       /\ \A k \in 1..Len(hist) : hist[k] = "Timeout")
    => (calls = 2 /\ outcome = "exhausted" /\ surfaced.tmpl = "timeout")

\* C5 (as claimed): when every attempt is a TLS handshake failure the call
\* makes exactly retries + 1 attempts and then fails with a TLS diagnostic.
C5_TlsExhausts ==
    (Https /\ Done /\ Len(hist) >= 1
       /\ \A k \in 1..Len(hist) : hist[k] = "TlsHandshakeFailure")
    => (calls = retries + 1 /\ Includes(surfaced.marks, MTLS))

\* C6 (as claimed): an attempt with index i < retries that ends with a
\* status in 500..599 does not end the call (it is retried).
C6_ServerErrorRetried ==
    Https => \A k \in 1..Len(hist) :
        (hist[k] = "ServerError" /\ k - 1 < retries) => ~EndedBy(k)

\* C7 (as claimed): an attempt with index i < retries that fails with
\* ENOTFOUND, ECONNREFUSED or ECONNRESET does not end the call.
C7_SocketErrorRetried ==
    Https => \A k \in 1..Len(hist) :
        (hist[k] \in {"DnsFailure", "ConnectionRefused", "ConnectionReset"}
           /\ k - 1 < retries) => ~EndedBy(k)

\* C8 (as claimed): an attempt that ends with 429 or another non-2xx status
\* outside 500..599 ends the call whatever the body holds, and the error
\* surfaced is the HTTP error of that status.
C8_ClientErrorFinal ==
    Https => \A k \in 1..Len(hist) :
        hist[k] \in {"RateLimit", "OtherStatus"}
        => /\ EndedBy(k)
           /\ surfaced.tmpl = "http"
           /\ surfaced.status = promise.status

\* The delay the design gives for the wait after attempt i (0-based).
DesignDelay(i) ==
    IF i = 0 THEN 1000 ELSE IF i = 1 THEN 2000 ELSE IF i = 2 THEN 4000
    ELSE 5000

\* C9: the wait after failed attempt i is 1000, 2000, 4000, then 5000 for
\* i >= 3; the waits are non-decreasing and never above 5000, and wait i is
\* made between attempt i and attempt i + 1.
C9_BackoffDelays ==
    Https =>
      /\ Len(waits) = (IF pc = "backoff" THEN attempt + 1 ELSE attempt)
      /\ \A k \in 1..Len(waits) :
           /\ waits[k] = DesignDelay(k - 1)
           /\ waits[k] <= 5000
           /\ (k > 1 => waits[k - 1] <= waits[k])

\* C9 witness: the wait after attempt 3 is the capped one.
C9_Witness ==
    Https /\ pc = "backoff" /\ attempt = 3 /\ Len(waits) = 4
          /\ waits[4] = 5000

\* C10 (as claimed): in both clients a retry budget the caller gives is
\* used as given, 0 included, and 2 is used only when none is given.
C10_RetriesAsGiven ==
    /\ Https => retries = (IF retriesArg.given THEN retriesArg.val ELSE 2)
    /\ \A c \in SdkCalls : sdk[c].pc # "idle"
         => sdk[c].maxRetries =
              (IF sdk[c].arg.given THEN sdk[c].arg.val ELSE 2)

SdkEnded(c) == sdk[c].pc \in {"returned", "threw"}

\* C11 (as claimed): when an SDK-backed call with insecureTls = true has
\* returned or thrown, and no other call ran, the TLS-verification variable
\* has the value it had when the call started.
C11_EnvRestored ==
    \A c \in SdkCalls :
        (SdkEnded(c) /\ sdk[c].insecure
           /\ \A d \in SdkCalls \ {c} : sdk[d].pc = "idle")
        => env = sdk[c].envBefore

\* C12 (as claimed): with overlapping calls, (a) a call with insecureTls =
\* false has no attempt in flight with verification disabled (the process
\* itself not having disabled it), and (b) every attempt in flight of a call
\* with insecureTls = true has verification disabled.
C12_ScopedTls ==
    \A c \in SdkCalls :
        sdk[c].inflight =>
          /\ (~sdk[c].insecure /\ envInit # "0") => ~sdk[c].relaxed
          /\ sdk[c].insecure => sdk[c].relaxed

\* The claim's reading of sanitizeMessage, written from its sentence: cut
\* at the first and last character that is not white space, ...
ClaimTrim(s) ==
    LET keep == {i \in 1..Len(s) : ~IsSpace(s[i])}
    IN IF keep = {} THEN <<>>
       ELSE SubSeq(s, CHOOSE i \in keep : \A j \in keep : i <= j,
                      CHOOSE i \in keep : \A j \in keep : j <= i)

RECURSIVE ClaimNoBreaks(_)
\* ... take out every line break, ...
ClaimNoBreaks(s) ==
    IF s = <<>> THEN <<>>
    ELSE IF Head(s) = "\n" THEN ClaimNoBreaks(Tail(s))
    ELSE <<Head(s)>> \o ClaimNoBreaks(Tail(s))

\* ... and take off a last period that follows a word character.
ClaimSanitized(s) ==
    LET t == ClaimNoBreaks(ClaimTrim(s))
    IN IF Len(t) >= 2 /\ t[Len(t)] = "." /\ t[Len(t) - 1] = "a"
       THEN SubSeq(t, 1, Len(t) - 1)
       ELSE t

\* A response of one choice with a non-empty content has been processed.
OneContent ==
    /\ postPc = "returned"
    /\ Len(completion.choices) = 1
    /\ completion.choices[1].kind = "content"
    /\ completion.choices[1].text # <<>>

\* C13: sanitizeMessage(s) is s trimmed, without line breaks, and without
\* its last character exactly when that is a period after a word character;
\* at most one character goes beyond the white space and line breaks.
C13_Sanitize ==
    OneContent =>
      LET s == completion.choices[1].text
      IN /\ messages = <<ClaimSanitized(s)>>
         /\ Len(ClaimNoBreaks(ClaimTrim(s))) - Len(messages[1]) <= 1

\* C13 witness: 'a.\n' gives 'a'.
C13_Witness ==
    /\ OneContent
    /\ completion.choices[1].text = <<"a", ".", "\n">>
    /\ messages = << <<"a">> >>

\* C13 witness of the untouched periods: '...' stays '...'.
C13_WitnessDots ==
    /\ OneContent
    /\ completion.choices[1].text = <<".", ".", ".">>
    /\ messages = << <<".", ".", ".">> >>

\* The position of the first candidate equal to m.
FirstIndex(m, candidates) ==
    CHOOSE i \in 1..Len(candidates) :
        /\ candidates[i] = m
        /\ \A j \in 1..(i - 1) : candidates[j] # m

\* C14: the returned list holds no string twice, holds exactly the
\* sanitized candidates, and keeps them in the order of first occurrence.
C14_Deduplicated ==
    postPc = "returned" =>
      LET candidates == MapSanitize(Filter(completion.choices))
      IN /\ \A i, j \in 1..Len(messages) :
                i # j => messages[i] # messages[j]
         /\ Range(messages) = Range(candidates)
         /\ \A i, j \in 1..Len(messages) :
                i < j => FirstIndex(messages[i], candidates)
                           < FirstIndex(messages[j], candidates)

\* C14 witness: ['a', 'a.', 'aa'] gives ['a', 'aa'].
C14_Witness ==
    /\ postPc = "returned"
    /\ completion.choices = << Choice("content", <<"a">>),
                               Choice("content", <<"a", ".">>),
                               Choice("content", <<"a", "a">>) >>
    /\ messages = << <<"a">>, <<"a", "a">> >>

\* C15: a response with a choices array is post-processed without error;
\* every returned string comes from a choice that has content, and when no
\* choice has content the list is empty.
C15_NoContentDropped ==
    (postPc # "parsed" /\ completion.hasChoices) =>
      /\ postPc = "returned"
      /\ \A m \in Range(messages) :
           \E i \in 1..Len(completion.choices) :
              /\ completion.choices[i].kind = "content"
              /\ sanitizeMessage(completion.choices[i].text) = m
      /\ (\A i \in 1..Len(completion.choices) :
             completion.choices[i].kind # "content") => messages = <<>>

\* C15 witness: two choices, neither with content, give the empty list.
C15_Witness ==
    /\ postPc = "returned"
    /\ completion.choices = << Choice("noMessage", <<>>),
                               Choice("noContent", <<>>) >>
    /\ messages = <<>>

LastCategory == hist[Len(hist)]

\* C16 (as claimed): a call ended by a 2xx response with an unparseable
\* body throws a KnownError, after exactly one attempt.
C16_MalformedClassified ==
    (Https /\ Done /\ Len(hist) >= 1 /\ LastCategory = "MalformedResponse")
    => (surfaced.known /\ calls = 1)

TransportCategories ==
    {"DnsFailure", "ConnectionRefused", "ConnectionReset",
     "TlsHandshakeFailure", "Timeout", "Unknown"}

\* C17 (as claimed): a call ended by a transport failure (request 'error',
\* 'timeout' or socket 'error') throws a KnownError to the caller.
C17_NoRawError ==
    (Https /\ Done /\ Len(hist) >= 1 /\ LastCategory \in TransportCategories)
    => surfaced.known

\* C18 (as claimed): for a response with a non-2xx status, what the catch
\* block decides is the same whatever body came with that status.
C18_BodyIrrelevant ==
    (Https /\ pc = "inflight" /\ promise.state = "resolved"
       /\ BadStatus(promise.status))
    => \A b \in Bodies :
         CatchDecision(HttpError(promise.status, b), attempt, retries)
           = CatchDecision(HttpError(promise.status, promise.body),
                           attempt, retries)

\* The outcomes a call of createChatCompletion can end in.
Outcomes == {"returned", "nonretryable", "exhausted"}

\* C19: when every request in flight eventually gets an event and every
\* backoff timer eventually fires, a call of createChatCompletion with
\* retries >= 0 eventually ends, and it ends in exactly one of: returned
\* (parsed body), non-retryable failure, exhausted failure; the outcome of
\* an ended call never changes.
C19_Terminates ==
    /\ Https ~> Done
    /\ [](Https /\ Done => outcome \in Outcomes)
    /\ [](Https /\ ~Done => outcome = "none")
    /\ [][Https /\ Done => (Done' /\ outcome' = outcome)]_vars

\* C19 witness: a call that waited for two backoff timers and three
\* requests, and then ended.
C19_Witness ==
    Https /\ Done /\ retries = 2 /\ Len(waits) = 2 /\ Len(hist) = 3
    /\ outcome \in Outcomes

\* C20: within one call at most one request is open in every state; a
\* request is started only as the first one (index 0) or by the backoff
\* timer firing after the previous request ended as a failure, with every
\* earlier request closed; and the index of the request started equals
\* the number of requests started before it (0, 1, 2, ... with none
\* skipped or repeated).
C20_OneInFlight ==
    /\ [](Https => Cardinality(open) <= 1)
    /\ [](Https /\ pc = "inflight" /\ promise.state = "pending"
            => open = {attempt})
    /\ [][calls' # calls =>
            /\ calls' = calls + 1
            /\ attempt' = calls
            /\ open' = {attempt'}
            /\ \/ calls = 0 /\ pc = "idle"
               \/ /\ pc = "backoff"
                  /\ open = {}
                  /\ Len(hist) = calls
                  /\ hist[calls] # "Success"
                  /\ Len(waits) = calls
                  /\ attempt = calls - 1]_vars

\* C20 witness: the third request (index 2) is in flight after two failed
\* ones and two backoff waits.
C20_Witness ==
    Https /\ pc = "inflight" /\ calls = 3 /\ attempt = 2 /\ open = {2}
    /\ Len(hist) = 2 /\ Len(waits) = 2 /\ promise.state = "pending"

\* C21: a call that ends with the failure of the attempt whose index is
\* retries surfaces the error of that attempt (as generateCommitMessage's
\* catch passes it on), never the fallback; and the fallback 'All
\* connection attempts failed' is surfaced only by a call that started no
\* request at all.
C21_LastFailureSurfaced ==
    /\ (Https /\ Done /\ outcome # "returned" /\ calls >= 1
          /\ attempt = retries)
       => /\ lastError \in AttemptErrors(promise)
          /\ surfaced = OuterCatch(lastError)
          /\ surfaced # FallbackError
          /\ Len(hist) = calls
    /\ (Https /\ Done /\ surfaced = FallbackError) => calls = 0

\* C21 witness: with retries = 1, a TLS failure was retried and the second
\* attempt, the last of the budget, failed with status 500; its error is
\* the one surfaced.
C21_Witness ==
    Https /\ Done /\ outcome = "exhausted" /\ retries = 1 /\ calls = 2
    /\ hist = <<"TlsHandshakeFailure", "ServerError">>
    /\ surfaced = HttpError(500, promise.body)

\* C21 witness of the fallback: a call with a negative retries started no
\* request and surfaced the fallback.
C21_WitnessFallback ==
    Https /\ Done /\ calls = 0 /\ retries < 0 /\ surfaced = FallbackError

\* C22 (as claimed): every string in the list generateCommitMessage returns
\* is non-empty; a choice whose content is missing, empty, or only white
\* space and line breaks adds nothing to the list.
C22_NoEmptyMessage ==
    postPc = "returned" => \A i \in 1..Len(messages) : messages[i] # <<>>

\* C23: each request yields exactly one outcome. The first callback that
\* fires for it (response 'end', request 'error', request 'timeout',
\* socket 'error', in any order) settles the promise; a callback that
\* fires later changes neither the promise nor the category recorded for
\* it; and createChatCompletion decides once per request, on that outcome:
\* the decisions made number the requests ended, and each is made on an
\* error the settled promise raises or, for a parsed 2xx body, is a return.
C23_OneOutcome ==
    /\ [][(Https /\ pc = "inflight" /\ promise.state = "pending"
             /\ fired' = fired + 1) => promise'.state # "pending"]_vars
    /\ [][(Https /\ pc = "inflight" /\ promise.state # "pending"
             /\ calls' = calls) => (promise' = promise /\ cat' = cat)]_vars
    /\ [](Https => Len(hist) = IF pc = "inflight" THEN calls - 1 ELSE calls)
    /\ [][hist' # hist =>
            /\ pc = "inflight" /\ pc' \in {"backoff", "done"}
            /\ promise.state # "pending"
            /\ hist' = Append(hist, cat)
            /\ IF AttemptErrors(promise) = {}
               THEN outcome' = "returned"
               ELSE lastError' \in AttemptErrors(promise)]_vars

\* C23 witness: the request 'timeout' fired first and the request 'error'
\* that request.destroy() causes fired after it; the attempt still holds
\* the timeout's rejection.
C23_Witness ==
    Https /\ pc = "inflight" /\ fired = 2 /\ cat = "Timeout"
    /\ promise = Rejected(TimeoutReject(timeout))

\* C24 (as claimed): a backoff wait happens only between a failed attempt
\* that is retried and the next attempt. The waits number the requests
\* started minus one (or as many as the requests, while the timer of the
\* last failure runs), so none precedes request 0; and an attempt that
\* ends in a failure of a non-retryable category, or that has index
\* retries and fails, ends the call with no wait and no request after it.
C24_WaitsBetweenAttempts ==
    Https =>
      /\ Len(waits) = IF pc = "backoff" THEN calls ELSE calls - 1
      /\ \A k \in 1..Len(hist) :
            (hist[k] # "Success"
               /\ (hist[k] \notin RetryableCategories \/ k - 1 = retries))
            => (EndedBy(k) /\ Len(waits) = k - 1 /\ calls = k)

\* An error for which no rule of the handlers or of the catch block holds:
\* its message is the original one, it names no 401 and none of the
\* network tokens, and its code is not ENOTFOUND.
Unrecognised(e) ==
    /\ e.tmpl \in {"raw", "syntax"}
    /\ ~IsAuthError(e) /\ ~IsNetworkError(e)
    /\ e.code # "ENOTFOUND"

\* C25 (as claimed), raw-HTTPS client: an error that matches no rule is
\* not a KnownError made from the original, is never retried, and is the
\* error the caller gets, unchanged.
C25_UnknownUnchanged ==
    /\ (Https /\ pc = "inflight" /\ promise.state = "rejected"
          /\ Unrecognised(promise.error))
       => /\ ~promise.error.known
          /\ CatchDecision(promise.error, attempt, retries) # "retry"
    /\ (Https /\ Done /\ outcome # "returned" /\ Unrecognised(lastError))
       => (surfaced = lastError /\ ~surfaced.known)

\* An error for which no rule of the SDK-backed call's catch block holds.
SdkUnrecognised(e) ==
    /\ ~e.api /\ ~e.conn /\ ~e.openai
    /\ ~Includes(e.marks, MTimeout) /\ ~Includes(e.marks, MTimedOut)
    /\ e.code # "ENOTFOUND"

\* C25, SDK-backed client: the catch block throws an error that matches no
\* rule as it caught it, and the connection diagnostic replaces only an
\* error whose code is ENOTFOUND.
C25_SdkUnknownUnchanged ==
    sdkThrown # NoSdkError =>
      /\ SdkUnrecognised(sdkError) => sdkThrown = sdkError
      /\ sdkThrown.tmpl = "connecting" => sdkError.code = "ENOTFOUND"

\* C25, SDK-backed client, witness: an error of no SDK class with code
\* ERR_MODULE_NOT_FOUND was thrown on as it was.
C25_SdkWitness ==
    /\ sdkThrown = sdkError
    /\ sdkError.code = "ERR_MODULE_NOT_FOUND"
    /\ sdkError.marks = {MTLS}

====
